---- MODULE Spec2Model ----
(***************************************************************************)
(* B+Tree node core of src/btree/node.rs: the fixed-capacity LeafNode and  *)
(* InnerNode and the operations of the Node trait (insert, remove, split,  *)
(* borrow, merge, find_slot, contains) plus InnerNode::traverse and        *)
(* LeafNode::get.                                                          *)
(*                                                                         *)
(* A node is a record holding the raw arrays of the struct.  The arrays    *)
(* are sequences of the struct's fixed length; the Rust index i is the     *)
(* TLA+ index i + 1 (see Idx, Put, Slice, copy).  Slots that were never    *)
(* written hold Uninit; slots beyond count_ keep whatever was last written *)
(* there, as in the code.  A call that panics yields panic |-> TRUE        *)
(* together with the operands as they are at the moment of the abort.      *)
(***************************************************************************)
EXTENDS Integers, Sequences, FiniteSets, TLC

\* ---------------------------------------------------------------- constants

\* keys: [u64; 255] of both structs; full() is count() == 255.
Cap == 255
\* half_full() is count() <= 127.
Half == 127
\* A slot of a mem::uninitialized() node that was never written.
Uninit == -1
\* Option::None of remove() and get().
None == -2
\* The page ids of the scenarios.  none is the next link of the last leaf,
\* leftmost the child given to InnerNode::new.
PageIds ==
    [none |-> 0, self |-> 1, sibling |-> 2, outerLeft |-> 3, outerRight |-> 4,
     after |-> 7, leftmost |-> 10, sibLeftmost |-> 20]
NoPage == PageIds.none

\* ------------------------------------------------------------------- bounds

\* Keys of the small-node exploration are 1..MaxKey.
MaxKey == 3
\* Calls per behaviour of the small-node exploration.
MaxOps == 3
\* Key strides of the nodes filled for the split scenarios: 1..MaxStride.
MaxStride == 2
\* Counts 0..MaxSlack and Half-MaxSlack..Half+1 of self in the rebalancing scenarios.
MaxSlack == 1
\* Leaves of the leaf chain.
MaxPages == 3
\* Removals per behaviour of the leaf chain.
MaxRemoves == 1

\* ------------------------------------------------------------ array helpers

\* a[i] of a Rust array or slice.
Idx(a, i) == a[i + 1]

\* a[i] = v.
Put(a, i, v) == [a EXCEPT ![i + 1] = v]

\* &a[lo..hi].
Slice(a, lo, hi) == SubSeq(a, lo + 1, hi)

\* A copy that runs forward element by element (memcpy semantics): when the
\* destination overlaps the source from above, it rereads what it has written.
copy_forward(a, src, dst, n) ==
    [j \in 1..Len(a) |->
        IF j - 1 >= dst /\ j - 1 < dst + n
        THEN IF dst > src THEN a[src + 1 + ((j - 1 - dst) % (dst - src))]
             ELSE a[j - dst + src]
        ELSE a[j]]

\* ptr::copy(&a[src], &mut a[dst], n): an overlap-safe move of n elements
\* inside one array whose source and destination ranges are in bounds.
copy(a, src, dst, n) ==
    IF n <= 0 THEN a
    ELSE SubSeq(a, 1, dst) \o SubSeq(a, src + 1, src + n) \o SubSeq(a, dst + n + 1, Len(a))

\* A copy_from_slice that stores the slice back to front.
copy_from_slice_reversed(a, lo, hi, s) ==
    SubSeq(a, 1, lo) \o [j \in 1..Len(s) |-> s[Len(s) + 1 - j]] \o SubSeq(a, hi + 1, Len(a))

\* a[lo..hi].copy_from_slice(s), for Len(s) = hi - lo.
copy_from_slice(a, lo, hi, s) ==
    SubSeq(a, 1, lo) \o s \o SubSeq(a, hi + 1, Len(a))

\* The elements of a sequence.
Range(s) == {s[j] : j \in 1..Len(s)}

\* What a read of a possibly uninitialized u64 can yield: any value.  Keys are
\* only ever compared, so the least value and one above every key of the model
\* stand for all of them.
GarbageVals == {0, 2147483647}

ReadRaw(x) == IF x = Uninit THEN GarbageVals ELSE {x}

\* slice::binary_search on a sorted slice: Ok(i) for some i with s[i] = key
\* (any one of the matches when there are several), otherwise Err(i) with i
\* the insertion point.
binary_search(s, key) ==
    LET hits == {j \in 1..Len(s) : s[j] = key}
    IN  IF hits # {}
        THEN {[ok |-> TRUE, i |-> j - 1] : j \in hits}
        ELSE {[ok |-> FALSE, i |-> Cardinality({j \in 1..Len(s) : s[j] < key})]}

\* ------------------------------------------------------ Node: shared methods

count(n) == n.count_

half_full(n) == count(n) <= Half

full(n) == count(n) = Cap

\* keys(): &self.keys[..self.count()]
keys(n) == Slice(n.keys, 0, count(n))

\* Node::find_slot (the default, used by LeafNode): the possible results.
Node_find_slot(n, key) == {r.i : r \in binary_search(keys(n), key)}

\* A find_slot of an inner node that stays on an exact match, as the default
\* of the trait does.
Inner_find_slot_on_match(n, key) == {r.i : r \in binary_search(keys(n), key)}

\* InnerNode::find_slot: Ok(i) => i + 1.
Inner_find_slot(n, key) ==
    {IF r.ok THEN r.i + 1 ELSE r.i : r \in binary_search(keys(n), key)}

\* keys().get(i) == Some(&key)
GetIs(s, i, key) == i < Len(s) /\ Idx(s, i) = key

\* Node::contains for a LeafNode: the possible results.
Leaf_contains(n, key) == {GetIs(keys(n), i, key) : i \in Node_find_slot(n, key)}

\* Node::contains for an InnerNode: the default method calls the overridden
\* InnerNode::find_slot.
Inner_contains(n, key) == {GetIs(keys(n), i, key) : i \in Inner_find_slot(n, key)}

\* ------------------------------------------------------------------ LeafNode

\* An empty leaf in a fresh page.
EmptyLeaf ==
    [count_ |-> 0,
     keys   |-> [j \in 1..Cap |-> Uninit],
     data   |-> [j \in 1..Cap |-> Uninit],
     next   |-> NoPage]

\* content(): &self.data[..self.count()]
Leaf_content(n) == Slice(n.data, 0, count(n))

\* LeafNode::get: the possible results.
Leaf_get(n, key) ==
    {IF r.ok THEN Idx(n.data, r.i) ELSE None : r \in binary_search(keys(n), key)}

\* An insert_idx that stores the key before it checks that the node is full.
Leaf_insert_idx_late_assert(n, i, key, val) ==
    IF full(n) \/ i > count(n)
    THEN [panic |-> TRUE, node |-> [n EXCEPT !.keys = Put(n.keys, Cap - 1, key)]]
    ELSE [panic |-> FALSE,
          node  |-> [n EXCEPT
                       !.keys = Put(copy(n.keys, i, i + 1, count(n) - i), i, key),
                       !.data = Put(copy(n.data, i, i + 1, count(n) - i), i, val),
                       !.count_ = count(n) + 1]]

Leaf_insert_idx(n, i, key, val) ==
    IF full(n) \/ i > count(n)
    THEN [panic |-> TRUE, node |-> n]
    ELSE [panic |-> FALSE,
          node  |-> [n EXCEPT
                       !.keys = Put(copy(n.keys, i, i + 1, count(n) - i), i, key),
                       !.data = Put(copy(n.data, i, i + 1, count(n) - i), i, val),
                       !.count_ = count(n) + 1]]

\* Node::insert for a LeafNode: the possible outcomes.
Leaf_insert(n, key, val) ==
    {Leaf_insert_idx(n, i, key, val) : i \in Node_find_slot(n, key)}

\* &self.keys[i + 1] is bounds-checked against the array length whatever
\* the number of elements moved.
Leaf_remove_idx(n, i) ==
    IF i + 1 >= Cap \/ i >= count(n)
    THEN [panic |-> TRUE, node |-> n, ret |-> <<None, None>>]
    ELSE [panic |-> FALSE,
          node  |-> [n EXCEPT
                       !.keys = copy(n.keys, i + 1, i, count(n) - i - 1),
                       !.data = copy(n.data, i + 1, i, count(n) - i - 1),
                       !.count_ = count(n) - 1],
          ret   |-> <<Idx(n.keys, i), Idx(n.data, i)>>]

\* Node::remove for a LeafNode: the possible outcomes.
Leaf_remove(n, key) ==
    {IF GetIs(keys(n), i, key)
     THEN LET r == Leaf_remove_idx(n, i)
          IN  [panic |-> r.panic, node |-> r.node, ret |-> r.ret[2]]
     ELSE [panic |-> FALSE, node |-> n, ret |-> None]
     : i \in Node_find_slot(n, key)}

\* A midpoint rounded up instead of down.
RoundedUpHalf(n) == (count(n) + 1) \div 2

\* LeafNode::split: let mut remain = self.count() / 2
Leaf_split_remain(n) == count(n) \div 2

\* Counts of a leaf split that forgets the incoming entry.
Leaf_split_counts_stale(n, i) == <<count(n) \div 2, count(n) - count(n) \div 2>>

\* LeafNode::split: the final <<remain, rest>>, stored as the two counts.
Leaf_split_counts(n, i) ==
    LET remain == Leaf_split_remain(n)
        rest   == count(n) - remain
    IN  IF i > remain THEN <<remain, rest + 1>> ELSE <<remain + 1, rest>>

\* A split that links the two leaves the wrong way round.
Leaf_split_links_swapped(n, target_id) == [target |-> target_id, self |-> n.next]

\* LeafNode::split: target.next = self.next; self.next = target_id
Leaf_split_links(n, target_id) == [target |-> n.next, self |-> target_id]

\* LeafNode::split once find_slot(newkey) has returned i.  target starts as
\* mem::uninitialized().
Leaf_split_at(n, i, newkey, newval, target_id) ==
    IF ~full(n)
    THEN [panic |-> TRUE, self |-> n, target |-> EmptyLeaf, key |-> newkey]
    ELSE
    LET remain == Leaf_split_remain(n)
        rest   == count(n) - remain
        cnt    == Leaf_split_counts(n, i)
        t0     == [EmptyLeaf EXCEPT !.next = Leaf_split_links(n, target_id).target]
        s0     == [n EXCEPT !.next = Leaf_split_links(n, target_id).self]
    IN  IF i > remain
        THEN \* add to target
             LET rest1  == rest + 1
                 before == i - remain
                 after  == i - remain + 1
                 tk == copy_from_slice(
                           Put(copy_from_slice(t0.keys, 0, before, Slice(s0.keys, remain, i)),
                               i - remain, newkey),
                           after, rest1, Slice(keys(s0), i, count(s0)))
                 td == copy_from_slice(
                           Put(copy_from_slice(t0.data, 0, before, Slice(s0.data, remain, i)),
                               i - remain, newval),
                           after, rest1, Slice(Leaf_content(s0), i, count(s0)))
             IN  [panic  |-> FALSE,
                  self   |-> [s0 EXCEPT !.count_ = cnt[1]],
                  target |-> [t0 EXCEPT !.keys = tk, !.data = td, !.count_ = cnt[2]],
                  key    |-> Idx(tk, 0)]
        ELSE \* add to self
             LET tk == copy_from_slice(t0.keys, 0, rest, Slice(keys(s0), remain, count(s0)))
                 td == copy_from_slice(t0.data, 0, rest,
                                       Slice(Leaf_content(s0), remain, count(s0)))
                 sk == Put(copy(s0.keys, i, i + 1, remain - i), i, newkey)
                 sd == Put(copy(s0.data, i, i + 1, remain - i), i, newval)
             IN  [panic  |-> FALSE,
                  self   |-> [s0 EXCEPT !.keys = sk, !.data = sd, !.count_ = cnt[1]],
                  target |-> [t0 EXCEPT !.keys = tk, !.data = td, !.count_ = cnt[2]],
                  key    |-> Idx(tk, 0)]

\* LeafNode::split: the possible outcomes.
Leaf_split(n, key, newval, target_id) ==
    {Leaf_split_at(n, i, key, newval, target_id) : i \in Node_find_slot(n, key)}

\* LeafNode::borrow.  The asserts come first; sibling.remove_idx may panic
\* before it writes; the parent index is bounds-checked after the removal.
Leaf_borrow(self, parent, parent_slot, sibling, is_right) ==
    LET unchanged == [panic |-> TRUE, self |-> self, parent |-> parent, sibling |-> sibling]
    IN  IF ~half_full(self) \/ half_full(sibling)
        THEN unchanged
        ELSE
        LET i_del == IF is_right THEN 0 ELSE count(sibling) - 1
            i_ins == IF is_right THEN count(self) ELSE 0
            r     == Leaf_remove_idx(sibling, i_del)
            k     == r.ret[1]
            v     == r.ret[2]
            pidx  == IF is_right THEN parent_slot ELSE parent_slot - 1
        IN  IF r.panic
            THEN unchanged
            ELSE IF pidx < 0 \/ pidx >= Cap
            THEN [panic |-> TRUE, self |-> self, parent |-> parent, sibling |-> r.node]
            ELSE
            LET p1  == [parent EXCEPT !.keys =
                          Put(parent.keys, pidx,
                              IF is_right THEN Idx(r.node.keys, 0) ELSE k)]
                ins == Leaf_insert_idx(self, i_ins, k, v)
            IN  [panic |-> ins.panic, self |-> ins.node, parent |-> p1, sibling |-> r.node]

\* LeafNode::merge: the possible outcomes.  The second assert reads keys[0]
\* of both raw arrays, live or not.
Leaf_merge(self, sibling, parent_key) ==
    IF ~(count(self) + count(sibling) <= Cap)
    THEN {[panic |-> TRUE, self |-> self, sibling |-> sibling]}
    ELSE
    {IF ~(a < b)
     THEN [panic |-> TRUE, self |-> self, sibling |-> sibling]
     ELSE LET c == count(self)
          IN  [panic   |-> FALSE,
               self    |-> [self EXCEPT
                              !.keys = copy_from_slice(self.keys, c, c + count(sibling),
                                                       keys(sibling)),
                              !.data = copy_from_slice(self.data, c, c + count(sibling),
                                                       Leaf_content(sibling)),
                              !.count_ = c + count(sibling),
                              !.next = sibling.next],
               sibling |-> sibling]
     : a \in ReadRaw(Idx(self.keys, 0)), b \in ReadRaw(Idx(sibling.keys, 0))}

\* ----------------------------------------------------------------- InnerNode

\* InnerNode::new
Inner_new(init_prev) ==
    [count_   |-> 0,
     keys     |-> [j \in 1..Cap |-> Uninit],
     children |-> [j \in 1..(Cap + 1) |-> IF j = 1 THEN init_prev ELSE Uninit]]

\* content(): &self.children[.. self.count() + 1]
Inner_content(n) == Slice(n.children, 0, count(n) + 1)

\* InnerNode::traverse: the possible results.
traverse(n, key) == {Idx(Inner_content(n), i) : i \in Inner_find_slot(n, key)}

\* An insert that attaches the new child to the left of the new key.
Inner_insert_idx_child_left(n, i, key, newpage) ==
    IF full(n) \/ i > count(n)
    THEN [panic |-> TRUE, node |-> n]
    ELSE [panic |-> FALSE,
          node  |-> [n EXCEPT
                       !.keys = Put(copy(n.keys, i, i + 1, count(n) - i), i, key),
                       !.children = Put(copy(n.children, i, i + 1, count(n) - i + 1),
                                        i, newpage),
                       !.count_ = count(n) + 1]]

Inner_insert_idx(n, i, key, newpage) ==
    IF full(n) \/ i > count(n)
    THEN [panic |-> TRUE, node |-> n]
    ELSE [panic |-> FALSE,
          node  |-> [n EXCEPT
                       !.keys = Put(copy(n.keys, i, i + 1, count(n) - i), i, key),
                       !.children = Put(copy(n.children, i + 1, i + 2, count(n) - i),
                                        i + 1, newpage),
                       !.count_ = count(n) + 1]]

\* Node::insert for an InnerNode: the possible outcomes.
Inner_insert(n, key, newpage) ==
    {Inner_insert_idx(n, i, key, newpage) : i \in Inner_find_slot(n, key)}

\* InnerNode::remove_idx: the possible outcomes.  &self.keys[i + 1] and
\* &self.children[i + 2] are bounds-checked; the moves then take count - i
\* elements, one more than the live ones after i, so on a full node they read
\* one element past the end of each array: the value that lands in the slot
\* freed by the decrement is arbitrary, or the read faults.
Inner_remove_idx(n, i) ==
    IF i + 1 >= Cap \/ i > count(n) \/ count(n) = 0
    THEN {[panic |-> TRUE, node |-> n, ret |-> <<None, None>>]}
    ELSE
    LET ret == <<Idx(n.keys, i), Idx(n.children, i + 1)>>
        m   == count(n) - i
    IN  IF full(n)
        THEN {[panic |-> TRUE, node |-> n, ret |-> <<None, None>>]}
             \cup
             {[panic |-> FALSE,
               node  |-> [n EXCEPT
                            !.keys = Put(copy(n.keys, i + 1, i, m - 1), Cap - 1, g),
                            !.children = Put(copy(n.children, i + 2, i + 1, m - 1), Cap, h),
                            !.count_ = count(n) - 1],
               ret   |-> ret] : g \in GarbageVals, h \in GarbageVals}
        ELSE {[panic |-> FALSE,
               node  |-> [n EXCEPT
                            !.keys = copy(n.keys, i + 1, i, m),
                            !.children = copy(n.children, i + 2, i + 1, m),
                            !.count_ = count(n) - 1],
               ret   |-> ret]}

\* InnerNode::remove: the possible outcomes.  self.keys()[i] is an indexing
\* of the live slice and panics for i = count; i - 1 underflows for i = 0.
Inner_remove(n, key) ==
    UNION
    {IF i >= count(n)
     THEN {[panic |-> TRUE, node |-> n, ret |-> None]}
     ELSE IF Idx(keys(n), i) = key
     THEN IF i = 0
          THEN {[panic |-> TRUE, node |-> n, ret |-> None]}
          ELSE {[panic |-> r.panic, node |-> r.node, ret |-> r.ret[2]]
                : r \in Inner_remove_idx(n, i - 1)}
     ELSE {[panic |-> FALSE, node |-> n, ret |-> None]}
     : i \in Inner_find_slot(n, key)}

\* A mem::uninitialized() InnerNode, the target of split.
UninitInner ==
    [count_   |-> 0,
     keys     |-> [j \in 1..Cap |-> Uninit],
     children |-> [j \in 1..(Cap + 1) |-> Uninit]]

\* InnerNode::split: let mut remain = (self.count() + 1) / 2
Inner_split_remain(n) == (count(n) + 1) \div 2

\* Counts of an inner split that keeps the promoted key in the node.
Inner_split_counts_keeping(n, i) ==
    LET remain == (count(n) + 1) \div 2
        rest   == count(n) - remain
    IN  IF i > remain THEN <<remain, rest + 1>> ELSE <<remain + 1, rest>>

\* InnerNode::split: the final <<remain, rest>>, stored as the two counts.
Inner_split_counts(n, i) ==
    LET remain == Inner_split_remain(n)
        rest   == count(n) - remain
    IN  IF i > remain THEN <<remain - 1, rest + 1>> ELSE <<remain + 1, rest - 1>>

\* InnerNode::split once find_slot(newkey) has returned i.
Inner_split_at(n, i, newkey, newval) ==
    IF ~full(n)
    THEN [panic |-> TRUE, self |-> n, target |-> UninitInner, key |-> newkey]
    ELSE
    LET remain == Inner_split_remain(n)
        rest   == count(n) - remain
        cnt    == Inner_split_counts(n, i)
        t0     == UninitInner
    IN  IF i > remain
        THEN \* add to target
             LET before == i - remain
                 after  == before + 1
                 tk == copy_from_slice(
                           Put(copy_from_slice(t0.keys, 0, before, Slice(n.keys, remain, i)),
                               before, newkey),
                           after, rest + 1, Slice(keys(n), i, count(n)))
                 tc == copy_from_slice(
                           Put(copy_from_slice(t0.children, 0, before + 1,
                                               Slice(n.children, remain, i + 1)),
                               before + 1, newval),
                           after + 1, rest + 2, Slice(Inner_content(n), i + 1, count(n) + 1))
             IN  [panic  |-> FALSE,
                  self   |-> [n EXCEPT !.count_ = cnt[1]],
                  target |-> [t0 EXCEPT !.keys = tk, !.children = tc, !.count_ = cnt[2]],
                  key    |-> Idx(n.keys, remain - 1)]
        ELSE \* add to self
             LET tk == copy_from_slice(t0.keys, 0, rest - 1,
                                       Slice(keys(n), remain + 1, count(n)))
                 tc == copy_from_slice(t0.children, 0, rest,
                                       Slice(Inner_content(n), remain + 1, count(n) + 1))
                 sk == Put(copy(n.keys, i, i + 1, remain - i), i, newkey)
                 sc == Put(copy(n.children, i + 1, i + 2, remain - i), i + 1, newval)
             IN  [panic  |-> FALSE,
                  self   |-> [n EXCEPT !.keys = sk, !.children = sc, !.count_ = cnt[1]],
                  target |-> [t0 EXCEPT !.keys = tk, !.children = tc, !.count_ = cnt[2]],
                  key    |-> Idx(n.keys, remain)]

\* A split that places the incoming pair one slot below its position.
Inner_split_slot_below(n, key, newval) ==
    {Inner_split_at(n, IF i > 0 THEN i - 1 ELSE 0, key, newval) : i \in Inner_find_slot(n, key)}

\* InnerNode::split: the possible outcomes.
Inner_split(n, key, newval) ==
    {Inner_split_at(n, i, key, newval) : i \in Inner_find_slot(n, key)}

\* InnerNode::borrow: the possible outcomes.
Inner_borrow(self, parent, parent_slot, sibling, is_right) ==
    LET unchanged == [panic |-> TRUE, self |-> self, parent |-> parent, sibling |-> sibling]
    IN  IF ~half_full(self) \/ half_full(sibling)
        THEN {unchanged}
        ELSE
        LET i_del == IF is_right THEN 0 ELSE count(sibling) - 1
            i_ins == IF is_right THEN count(self) ELSE 0
            pidx  == IF is_right THEN parent_slot ELSE parent_slot - 1
        IN  {IF r.panic
             THEN unchanged
             ELSE IF pidx < 0 \/ pidx >= Cap
             THEN [panic |-> TRUE, self |-> self, parent |-> parent, sibling |-> r.node]
             ELSE
             LET \* mem::swap(&mut k, &mut parent.keys[..])
                 k   == Idx(parent.keys, pidx)
                 p1  == [parent EXCEPT !.keys = Put(parent.keys, pidx, r.ret[1])]
                 \* mem::swap(&mut v, &mut sibling.children[0] or self.children[0])
                 v   == IF is_right THEN Idx(r.node.children, 0) ELSE Idx(self.children, 0)
                 sb1 == IF is_right
                        THEN [r.node EXCEPT !.children = Put(r.node.children, 0, r.ret[2])]
                        ELSE r.node
                 se1 == IF is_right
                        THEN self
                        ELSE [self EXCEPT !.children = Put(self.children, 0, r.ret[2])]
                 ins == Inner_insert_idx(se1, i_ins, k, v)
             IN  [panic |-> ins.panic, self |-> ins.node, parent |-> p1, sibling |-> sb1]
             : r \in Inner_remove_idx(sibling, i_del)}

\* InnerNode::merge: the possible outcomes.
Inner_merge(self, sibling, parent_key) ==
    IF ~(count(self) + count(sibling) + 1 <= Cap)
    THEN {[panic |-> TRUE, self |-> self, sibling |-> sibling]}
    ELSE
    {IF ~(a < b)
     THEN [panic |-> TRUE, self |-> self, sibling |-> sibling]
     ELSE LET c == count(self)
          IN  [panic   |-> FALSE,
               self    |-> [self EXCEPT
                              !.keys = Put(copy_from_slice(self.keys, c + 1,
                                                           c + 1 + count(sibling),
                                                           keys(sibling)),
                                           c, parent_key),
                              !.children = copy_from_slice(self.children, c + 1,
                                                           c + 1 + count(sibling) + 1,
                                                           Inner_content(sibling)),
                              !.count_ = c + count(sibling) + 1],
               sibling |-> sibling]
     : a \in ReadRaw(Idx(self.keys, 0)), b \in ReadRaw(Idx(sibling.keys, 0))}

\* --------------------------------------------------------------------- state

VARIABLES
    kind,      \* "leaf" or "inner": the node kind the behaviour exercises
    leaf,      \* the LeafNode that is self
    lsib,      \* the LeafNode that is sibling, or the leaf returned by split
    inner,     \* the InnerNode that is self
    isib,      \* the InnerNode that is sibling, or the node returned by split
    parent,    \* the InnerNode passed to borrow as parent
    op,        \* the last call: its name, arguments and result
    pre,       \* self, sibling and parent as they were when the last call began
    live,      \* per key, the value of its last insert, None once remove(key) was called
    nops,      \* the number of mutating calls made so far
    aborted,   \* a call has panicked: the process is gone
    stride,    \* the key stride of the filled nodes
    sibRight,  \* the sibling is the right-hand neighbour of self
    pages,     \* the leaf chain: page id -> LeafNode
    used,      \* the page ids of the live leaves of the chain
    first      \* what the next link of the original leaf was

nodes == <<leaf, lsib, inner, isib, parent>>
chain == <<pages, used, first>>
setup == <<kind, stride, sibRight>>
vars == <<kind, leaf, lsib, inner, isib, parent, op, pre, live, nops, aborted,
          stride, sibRight, pages, used, first>>

Keys == 1..MaxKey
\* Values stored in leaves.
Vals == {101, 102}
\* Page ids attached to separators.
Children == {11, 12}
LeftmostChild == PageIds.leftmost

NoOp == [name |-> "none", args |-> <<>>, ret |-> None]
NoPre == [self |-> EmptyLeaf, sibling |-> EmptyLeaf, parent |-> UninitInner]

InitNodes ==
    /\ leaf = EmptyLeaf
    /\ lsib = EmptyLeaf
    /\ inner = Inner_new(LeftmostChild)
    /\ isib = UninitInner
    /\ parent = UninitInner
    /\ op = NoOp
    /\ pre = NoPre
    /\ nops = 0
    /\ aborted = FALSE
    /\ pages = <<>>
    /\ used = {}
    /\ first = NoPage

\* ------------------------------------------- small nodes: insert and remove

Init ==
    /\ InitNodes
    /\ kind \in {"leaf", "inner"}
    /\ stride = 1
    /\ sibRight = TRUE
    /\ live = [k \in Keys |-> None]

Snap(s) == [self |-> s, sibling |-> pre.sibling, parent |-> pre.parent]

LeafInsert(k, v) ==
    /\ kind = "leaf" /\ ~aborted /\ nops < MaxOps
    /\ \E r \in Leaf_insert(leaf, k, v) :
          /\ leaf' = r.node
          /\ aborted' = r.panic
          /\ live' = IF r.panic THEN live ELSE [live EXCEPT ![k] = v]
    /\ op' = [name |-> "insert", args |-> <<k, v>>, ret |-> None]
    /\ pre' = Snap(leaf)
    /\ nops' = nops + 1
    /\ UNCHANGED <<lsib, inner, isib, parent, chain, setup>>

LeafRemove(k) ==
    /\ kind = "leaf" /\ ~aborted /\ nops < MaxOps
    /\ \E r \in Leaf_remove(leaf, k) :
          /\ leaf' = r.node
          /\ aborted' = r.panic
          /\ op' = [name |-> "remove", args |-> <<k>>, ret |-> r.ret]
    /\ live' = [live EXCEPT ![k] = None]
    /\ pre' = Snap(leaf)
    /\ nops' = nops + 1
    /\ UNCHANGED <<lsib, inner, isib, parent, chain, setup>>

LeafContains(k) ==
    /\ kind = "leaf" /\ ~aborted
    /\ \E b \in Leaf_contains(leaf, k) :
          op' = [name |-> "contains", args |-> <<k>>, ret |-> b]
    /\ pre' = Snap(leaf)
    /\ UNCHANGED <<nodes, live, nops, aborted, chain, setup>>

LeafGet(k) ==
    /\ kind = "leaf" /\ ~aborted
    /\ \E x \in Leaf_get(leaf, k) :
          op' = [name |-> "get", args |-> <<k>>, ret |-> x]
    /\ pre' = Snap(leaf)
    /\ UNCHANGED <<nodes, live, nops, aborted, chain, setup>>

InnerInsert(k, c) ==
    /\ kind = "inner" /\ ~aborted /\ nops < MaxOps
    /\ \E r \in Inner_insert(inner, k, c) :
          /\ inner' = r.node
          /\ aborted' = r.panic
          /\ live' = IF r.panic THEN live ELSE [live EXCEPT ![k] = c]
    /\ op' = [name |-> "insert", args |-> <<k, c>>, ret |-> None]
    /\ pre' = Snap(inner)
    /\ nops' = nops + 1
    /\ UNCHANGED <<leaf, lsib, isib, parent, chain, setup>>

InnerRemove(k) ==
    /\ kind = "inner" /\ ~aborted /\ nops < MaxOps
    /\ \E r \in Inner_remove(inner, k) :
          /\ inner' = r.node
          /\ aborted' = r.panic
          /\ op' = [name |-> "remove", args |-> <<k>>, ret |-> r.ret]
    /\ live' = [live EXCEPT ![k] = None]
    /\ pre' = Snap(inner)
    /\ nops' = nops + 1
    /\ UNCHANGED <<leaf, lsib, isib, parent, chain, setup>>

InnerContains(k) ==
    /\ kind = "inner" /\ ~aborted
    /\ \E b \in Inner_contains(inner, k) :
          op' = [name |-> "contains", args |-> <<k>>, ret |-> b]
    /\ pre' = Snap(inner)
    /\ UNCHANGED <<nodes, live, nops, aborted, chain, setup>>

InnerTraverse(k) ==
    /\ kind = "inner" /\ ~aborted
    /\ \E c \in traverse(inner, k) :
          op' = [name |-> "traverse", args |-> <<k>>, ret |-> c]
    /\ pre' = Snap(inner)
    /\ UNCHANGED <<nodes, live, nops, aborted, chain, setup>>

Next ==
    \/ \E k \in Keys, v \in Vals : LeafInsert(k, v)
    \/ \E k \in Keys : LeafRemove(k)
    \/ \E k \in Keys : LeafContains(k)
    \/ \E k \in Keys : LeafGet(k)
    \/ \E k \in Keys, c \in Children : InnerInsert(k, c)
    \/ \E k \in Keys : InnerRemove(k)
    \/ \E k \in Keys : InnerContains(k)
    \/ \E k \in Keys : InnerTraverse(k)

Spec == Init /\ [][Next]_vars

\* ------------------------------------------------- full nodes: fill and split

\* The driver fills an empty node by inserting stride, 2*stride, ... in
\* increasing order until it is full, then splits it with one incoming entry.
InitSplit ==
    /\ InitNodes
    /\ kind \in {"leaf", "inner"}
    /\ stride \in 1..MaxStride
    /\ sibRight = TRUE
    /\ live = <<>>

\* The value stored with key k, and the child attached to separator k.
ValOf(k) == 100000 + k
ChildOf(k) == 200000 + k
\* The value and the child of the incoming entry of a split, and the page
\* the node returned by split is stored at.
Incoming == [val |-> 300000, child |-> 400000, target |-> PageIds.sibling]
NewVal == Incoming.val
NewChild == Incoming.child
TargetId == Incoming.target

\* The incoming keys of a split: every gap and every stored key of the node.
SplitKeys == 0..(stride * Cap + 1)

FillLeaf ==
    /\ kind = "leaf" /\ ~aborted /\ ~full(leaf) /\ op.name # "split"
    /\ LET k == stride * (count(leaf) + 1)
       IN  /\ \E r \in Leaf_insert(leaf, k, ValOf(k)) :
                 /\ leaf' = r.node
                 /\ aborted' = r.panic
           /\ op' = [name |-> "insert", args |-> <<k, ValOf(k)>>, ret |-> None]
    /\ UNCHANGED <<lsib, inner, isib, parent, pre, live, nops, chain, setup>>

SplitLeaf(newkey) ==
    /\ kind = "leaf" /\ ~aborted /\ full(leaf) /\ op.name # "split"
    /\ \E r \in Leaf_split(leaf, newkey, NewVal, TargetId) :
          /\ leaf' = r.self
          /\ lsib' = r.target
          /\ aborted' = r.panic
          /\ op' = [name |-> "split", args |-> <<newkey, NewVal, TargetId>>, ret |-> r.key]
    /\ pre' = [pre EXCEPT !.self = leaf]
    /\ UNCHANGED <<inner, isib, parent, live, nops, chain, setup>>

FillInner ==
    /\ kind = "inner" /\ ~aborted /\ ~full(inner) /\ op.name # "split"
    /\ LET k == stride * (count(inner) + 1)
       IN  /\ \E r \in Inner_insert(inner, k, ChildOf(k)) :
                 /\ inner' = r.node
                 /\ aborted' = r.panic
           /\ op' = [name |-> "insert", args |-> <<k, ChildOf(k)>>, ret |-> None]
    /\ UNCHANGED <<leaf, lsib, isib, parent, pre, live, nops, chain, setup>>

SplitInner(newkey) ==
    /\ kind = "inner" /\ ~aborted /\ full(inner) /\ op.name # "split"
    /\ \E r \in Inner_split(inner, newkey, NewChild) :
          /\ inner' = r.self
          /\ isib' = r.target
          /\ aborted' = r.panic
          /\ op' = [name |-> "split", args |-> <<newkey, NewChild, TargetId>>, ret |-> r.key]
    /\ pre' = [pre EXCEPT !.self = inner]
    /\ UNCHANGED <<leaf, lsib, parent, live, nops, chain, setup>>

NextSplit ==
    \/ FillLeaf
    \/ \E k \in SplitKeys : SplitLeaf(k)
    \/ FillInner
    \/ \E k \in SplitKeys : SplitInner(k)

SpecSplit == InitSplit /\ [][NextSplit]_vars

\* --------------------------------------- two siblings: grow, borrow and merge

\* self and sibling are adjacent children of parent.  The left-hand node holds
\* the keys LeftBase + 1, LeftBase + 2, ..., the right-hand node the keys
\* RightBase + 1, ...; parent holds LowSep, the separator between the two, and
\* HighSep, so the left-hand node is child 1 and the right-hand node child 2.
Layout == [leftBase |-> 1000, rightBase |-> 2000, lowSep |-> 500, highSep |-> 3000]
LeftBase == Layout.leftBase
RightBase == Layout.rightBase
LowSep == Layout.lowSep
HighSep == Layout.highSep
\* The pages of the two nodes, of their outer neighbours and of the leaf after them.
SelfPage == PageIds.self
SibPage == PageIds.sibling
OuterLeft == PageIds.outerLeft
OuterRight == PageIds.outerRight
AfterPage == PageIds.after
\* The leftmost child of an inner sibling.
SibLeftmost == PageIds.sibLeftmost

\* The separator between the two nodes: the first key of the right-hand leaf
\* (copy-up), or a key between the two inner nodes (move-up).
SepKey == IF kind = "leaf" THEN RightBase + 1 ELSE RightBase

SelfBase == IF sibRight THEN LeftBase ELSE RightBase
SibBase == IF sibRight THEN RightBase ELSE LeftBase
\* The index of self among the children of parent.
ParentSlot == IF sibRight THEN 1 ELSE 2

\* The counts of self at which the sibling is grown.
SelfStops == (0..MaxSlack) \cup ((Half - MaxSlack)..(Half + 1))

InitRebalance ==
    /\ kind \in {"leaf", "inner"}
    /\ sibRight \in BOOLEAN
    /\ stride = 1
    /\ leaf = [EmptyLeaf EXCEPT !.next = IF sibRight THEN SibPage ELSE AfterPage]
    /\ lsib = [EmptyLeaf EXCEPT !.next = IF sibRight THEN AfterPage ELSE SelfPage]
    /\ inner = Inner_new(LeftmostChild)
    /\ isib = Inner_new(SibLeftmost)
    /\ parent = Inner_new(OuterLeft)
    /\ op = NoOp
    /\ pre = NoPre
    /\ nops = 0
    /\ aborted = FALSE
    /\ live = <<>>
    /\ pages = <<>>
    /\ used = {}
    /\ first = NoPage

\* No borrow or merge has been called yet.
Growing == ~aborted /\ op.name \in {"none", "insert"}

\* The driver attaches the nodes to parent: LowSep, the separator, HighSep.
GrowParent ==
    /\ Growing /\ count(parent) < 3
    /\ LET e == CASE count(parent) = 0 -> <<LowSep, IF sibRight THEN SelfPage ELSE SibPage>>
                  [] count(parent) = 1 -> <<SepKey, IF sibRight THEN SibPage ELSE SelfPage>>
                  [] OTHER -> <<HighSep, OuterRight>>
       IN  /\ \E r \in Inner_insert(parent, e[1], e[2]) :
                 /\ parent' = r.node
                 /\ aborted' = r.panic
           /\ op' = [name |-> "insert", args |-> e, ret |-> None]
    /\ UNCHANGED <<leaf, lsib, inner, isib, pre, live, nops, chain, setup>>

GrowSelf ==
    /\ Growing /\ count(parent) = 3
    /\ LET k == SelfBase + count(IF kind = "leaf" THEN leaf ELSE inner) + 1
       IN  IF kind = "leaf"
           THEN /\ count(lsib) = 0 /\ count(leaf) <= Half
                /\ \E r \in Leaf_insert(leaf, k, ValOf(k)) :
                      /\ leaf' = r.node
                      /\ aborted' = r.panic
                /\ op' = [name |-> "insert", args |-> <<k, ValOf(k)>>, ret |-> None]
                /\ UNCHANGED inner
           ELSE /\ count(isib) = 0 /\ count(inner) <= Half
                /\ \E r \in Inner_insert(inner, k, ChildOf(k)) :
                      /\ inner' = r.node
                      /\ aborted' = r.panic
                /\ op' = [name |-> "insert", args |-> <<k, ChildOf(k)>>, ret |-> None]
                /\ UNCHANGED leaf
    /\ UNCHANGED <<lsib, isib, parent, pre, live, nops, chain, setup>>

GrowSibling ==
    /\ Growing /\ count(parent) = 3
    /\ LET k == SibBase + count(IF kind = "leaf" THEN lsib ELSE isib) + 1
       IN  IF kind = "leaf"
           THEN /\ count(leaf) \in SelfStops /\ ~full(lsib)
                /\ \E r \in Leaf_insert(lsib, k, ValOf(k)) :
                      /\ lsib' = r.node
                      /\ aborted' = r.panic
                /\ op' = [name |-> "insert", args |-> <<k, ValOf(k)>>, ret |-> None]
                /\ UNCHANGED isib
           ELSE /\ count(inner) \in SelfStops /\ ~full(isib)
                /\ \E r \in Inner_insert(isib, k, ChildOf(k)) :
                      /\ isib' = r.node
                      /\ aborted' = r.panic
                /\ op' = [name |-> "insert", args |-> <<k, ChildOf(k)>>, ret |-> None]
                /\ UNCHANGED lsib
    /\ UNCHANGED <<leaf, inner, parent, pre, live, nops, chain, setup>>

\* self.borrow(parent, ParentSlot, sibling, sibRight)
Borrow ==
    /\ Growing /\ count(parent) = 3
    /\ IF kind = "leaf"
       THEN /\ LET r == Leaf_borrow(leaf, parent, ParentSlot, lsib, sibRight)
               IN  /\ leaf' = r.self
                   /\ lsib' = r.sibling
                   /\ parent' = r.parent
                   /\ aborted' = r.panic
            /\ pre' = [self |-> leaf, sibling |-> lsib, parent |-> parent]
            /\ UNCHANGED <<inner, isib>>
       ELSE /\ \E r \in Inner_borrow(inner, parent, ParentSlot, isib, sibRight) :
                   /\ inner' = r.self
                   /\ isib' = r.sibling
                   /\ parent' = r.parent
                   /\ aborted' = r.panic
            /\ pre' = [self |-> inner, sibling |-> isib, parent |-> parent]
            /\ UNCHANGED <<leaf, lsib>>
    /\ op' = [name |-> "borrow", args |-> <<ParentSlot, sibRight>>, ret |-> None]
    /\ UNCHANGED <<live, nops, chain, setup>>

\* self.merge(sibling, the separator between the two)
Merge ==
    /\ Growing /\ count(parent) = 3
    /\ IF kind = "leaf"
       THEN /\ \E r \in Leaf_merge(leaf, lsib, Idx(parent.keys, 1)) :
                   /\ leaf' = r.self
                   /\ lsib' = r.sibling
                   /\ aborted' = r.panic
            /\ pre' = [self |-> leaf, sibling |-> lsib, parent |-> parent]
            /\ UNCHANGED <<inner, isib>>
       ELSE /\ \E r \in Inner_merge(inner, isib, Idx(parent.keys, 1)) :
                   /\ inner' = r.self
                   /\ isib' = r.sibling
                   /\ aborted' = r.panic
            /\ pre' = [self |-> inner, sibling |-> isib, parent |-> parent]
            /\ UNCHANGED <<leaf, lsib>>
    /\ op' = [name |-> "merge", args |-> <<Idx(parent.keys, 1)>>, ret |-> None]
    /\ UNCHANGED <<parent, live, nops, chain, setup>>

NextRebalance ==
    \/ GrowParent
    \/ GrowSelf
    \/ GrowSibling
    \/ Borrow
    \/ Merge

SpecRebalance == InitRebalance /\ [][NextRebalance]_vars


\* ------------------------------------------------------------ the leaf chain

\* The leaves live in pages 1..MaxPages; page 1 holds the original leaf, whose
\* next link is first.  The driver keeps every leaf inside its own key range
\* (above its first key, below the first key of its right-hand neighbour): it
\* appends keys to a leaf while a fresh page is left, splits a full leaf into
\* a fresh page, removes first entries of one of the two leaves of a split, and after a
\* removal merges a leaf with its right-hand neighbour when the two fit in one
\* node.  sibRight selects the end the driver works at: TRUE grows the leaf
\* in the highest page and splits with a key after the last key of the leaf,
\* FALSE grows the leaf in the lowest page and splits with a key right after
\* the first key of the leaf.
PageSet == 1..MaxPages

\* The distance between the keys of the original leaf.
ChainGap == Cap + 1

InitChain ==
    /\ kind = "leaf"
    /\ stride = 1
    /\ sibRight \in BOOLEAN
    /\ leaf = EmptyLeaf
    /\ lsib = EmptyLeaf
    /\ inner = Inner_new(LeftmostChild)
    /\ isib = UninitInner
    /\ parent = UninitInner
    /\ op = NoOp
    /\ pre = NoPre
    /\ nops = 0
    /\ aborted = FALSE
    /\ live = <<>>
    /\ first = PageIds.after
    /\ pages = [p \in PageSet |-> IF p = 1 THEN [EmptyLeaf EXCEPT !.next = first]
                                  ELSE EmptyLeaf]
    /\ used = {1}

Min(S) == CHOOSE x \in S : \A y \in S : x <= y
Max(S) == CHOOSE x \in S : \A y \in S : x >= y

\* The first key of the right-hand neighbour of leaf p, if there is one.
Upper(p) ==
    IF pages[p].next \in used THEN Idx(pages[pages[p].next].keys, 0) ELSE 2147483647

\* The key right after the last key of leaf p, when it is in the range of p.
HighFree(p) ==
    LET n  == pages[p]
        hi == Idx(n.keys, count(n) - 1)
    IN  IF count(n) = 0 THEN {}
        ELSE IF hi + 1 < Upper(p) THEN {hi + 1} ELSE {}

\* The key right after the first key of leaf p, when it is free.
LowFree(p) ==
    LET n  == pages[p]
        lo == Idx(n.keys, 0)
    IN  IF count(n) = 0 THEN {}
        ELSE IF lo + 1 < Upper(p) /\ (count(n) = 1 \/ Idx(n.keys, 1) # lo + 1)
        THEN {lo + 1} ELSE {}

\* The key the driver inserts next into leaf p, as a set: the keys of the
\* original leaf are ChainGap apart, every later key is appended.
GrowKeys(p) ==
    LET n == pages[p]
    IN  IF count(n) = 0 THEN {ChainGap}
        ELSE IF op.name # "split" /\ nops = 0 /\ Cardinality(used) = 1
        THEN {Idx(n.keys, count(n) - 1) + ChainGap}
        ELSE HighFree(p)

\* The leaves the driver can still grow, and the leaves it can split.
Growable == {p \in used : ~full(pages[p]) /\ GrowKeys(p) # {}}

Splittable == {p \in used : full(pages[p]) /\ PageSet \ used # {}}

ChainGrow(p) ==
    /\ ~aborted /\ PageSet \ used # {} /\ Splittable = {} /\ p \in Growable
    /\ p = IF sibRight THEN Max(Growable) ELSE Min(Growable)
    /\ \E k \in GrowKeys(p) :
          /\ \E r \in Leaf_insert(pages[p], k, ValOf(k)) :
                /\ pages' = [pages EXCEPT ![p] = r.node]
                /\ aborted' = r.panic
          /\ op' = [name |-> "insert", args |-> <<k, ValOf(k), p>>, ret |-> None]
    /\ UNCHANGED <<nodes, pre, live, nops, used, first, setup>>

ChainRemove(p) ==
    /\ ~aborted /\ p \in used /\ count(pages[p]) > 1 /\ nops < MaxRemoves
    /\ \/ op.name = "split" /\ p \in {op.args[3], op.args[4]}
       \/ op.name = "remove" /\ p = op.args[2]
    /\ LET k == Idx(pages[p].keys, 0)
       IN  \E r \in Leaf_remove(pages[p], k) :
              /\ pages' = [pages EXCEPT ![p] = r.node]
              /\ aborted' = r.panic
              /\ op' = [name |-> "remove", args |-> <<k, p>>, ret |-> r.ret]
    /\ nops' = nops + 1
    /\ UNCHANGED <<nodes, pre, live, used, first, setup>>

\* The incoming key of a chain split: one that goes to the end of the leaf or
\* one that goes right after its first key.
ChainSplitKeys(p) == IF sibRight THEN HighFree(p) ELSE LowFree(p)

ChainSplit(p) ==
    /\ ~aborted /\ p \in Splittable
    /\ LET target_id == Min(PageSet \ used)
       IN  \E newkey \in ChainSplitKeys(p) :
           \E r \in Leaf_split(pages[p], newkey, NewVal, target_id) :
              /\ pages' = [pages EXCEPT ![p] = r.self, ![target_id] = r.target]
              /\ used' = used \cup {target_id}
              /\ aborted' = r.panic
              /\ op' = [name |-> "split", args |-> <<newkey, NewVal, target_id, p>>,
                        ret |-> r.key]
    /\ pre' = [pre EXCEPT !.self = pages[p]]
    /\ UNCHANGED <<nodes, live, nops, first, setup>>

ChainMerge(p) ==
    /\ ~aborted /\ p \in used /\ pages[p].next \in used
    /\ op.name \in {"remove", "merge"}
    /\ LET q == pages[p].next
       IN  /\ count(pages[p]) + count(pages[q]) <= Cap
           /\ \E r \in Leaf_merge(pages[p], pages[q], Idx(pages[q].keys, 0)) :
                 /\ pages' = [pages EXCEPT ![p] = r.self]
                 /\ used' = IF r.panic THEN used ELSE used \ {q}
                 /\ aborted' = r.panic
           /\ op' = [name |-> "merge", args |-> <<Idx(pages[q].keys, 0), q, p>>, ret |-> None]
           /\ pre' = [pre EXCEPT !.self = pages[p], !.sibling = pages[q]]
    /\ UNCHANGED <<nodes, live, nops, first, setup>>

NextChain ==
    \/ \E p \in PageSet : ChainGrow(p)
    \/ \E p \in PageSet : ChainRemove(p)
    \/ \E p \in PageSet : ChainSplit(p)
    \/ \E p \in PageSet : ChainMerge(p)

SpecChain == InitChain /\ [][NextChain]_vars


\* ------------------------------------------------- removal from a big leaf

\* A leaf is filled with the keys 1, 2, 3, ...; at any count the entry at any
\* index is removed by its key.
InitRemove ==
    /\ InitNodes
    /\ kind = "leaf"
    /\ stride = 1
    /\ sibRight = TRUE
    /\ live = <<>>

\* Nothing but inserts has been called yet.
Filling == ~aborted /\ op.name \in {"none", "insert"}

\* leaf.remove(leaf.keys()[i])
RemoveAt(i) ==
    /\ kind = "leaf" /\ Filling /\ i < count(leaf)
    /\ LET k == Idx(keys(leaf), i)
       IN  \E r \in Leaf_remove(leaf, k) :
              /\ leaf' = r.node
              /\ aborted' = r.panic
              /\ op' = [name |-> "remove", args |-> <<k>>, ret |-> r.ret]
    /\ pre' = [pre EXCEPT !.self = leaf]
    /\ UNCHANGED <<lsib, inner, isib, parent, live, nops, chain, setup>>

NextRemove ==
    \/ Filling /\ FillLeaf
    \/ \E i \in 0..(Cap - 1) : RemoveAt(i)

SpecRemove == InitRemove /\ [][NextRemove]_vars


\* ------------------------------------------- calls whose preconditions fail

\* The rebalancing scenarios reach borrow with self above half or the sibling
\* at most half full, and merge with too many entries or with the sibling on
\* the left.  InsertFull adds insert into a full sibling, with a key below or
\* above all of its keys.
InsertFull(k) ==
    /\ Growing /\ count(parent) = 3
    /\ IF kind = "leaf"
       THEN /\ full(lsib)
            /\ \E r \in Leaf_insert(lsib, k, ValOf(k)) :
                  /\ lsib' = r.node
                  /\ aborted' = r.panic
            /\ pre' = [self |-> leaf, sibling |-> lsib, parent |-> parent]
            /\ UNCHANGED isib
       ELSE /\ full(isib)
            /\ \E r \in Inner_insert(isib, k, ChildOf(k)) :
                  /\ isib' = r.node
                  /\ aborted' = r.panic
            /\ pre' = [self |-> inner, sibling |-> isib, parent |-> parent]
            /\ UNCHANGED lsib
    /\ op' = [name |-> "insert", args |-> <<k>>, ret |-> None]
    /\ UNCHANGED <<leaf, inner, parent, live, nops, chain, setup>>

NextAbort ==
    \/ NextRebalance
    \/ \E k \in {SibBase, SibBase + Cap + 1} : InsertFull(k)

SpecAbort == InitRebalance /\ [][NextAbort]_vars


\* ------------------------------------------------ merge of two small nodes

\* Two nodes of one kind receive keys of Keys in any order, MaxOps inserts in
\* all, and are then merged, whatever their key ranges.
InitMerge ==
    /\ kind \in {"leaf", "inner"}
    /\ stride = 1
    /\ sibRight = TRUE
    /\ leaf = [EmptyLeaf EXCEPT !.next = SibPage]
    /\ lsib = [EmptyLeaf EXCEPT !.next = AfterPage]
    /\ inner = Inner_new(LeftmostChild)
    /\ isib = Inner_new(SibLeftmost)
    /\ parent = UninitInner
    /\ op = NoOp
    /\ pre = NoPre
    /\ nops = 0
    /\ aborted = FALSE
    /\ live = <<>>
    /\ pages = <<>>
    /\ used = {}
    /\ first = NoPage

InsertSelf(k) ==
    /\ Filling /\ nops < MaxOps
    /\ IF kind = "leaf"
       THEN /\ \E r \in Leaf_insert(leaf, k, ValOf(k)) :
                  /\ leaf' = r.node
                  /\ aborted' = r.panic
            /\ UNCHANGED inner
       ELSE /\ \E r \in Inner_insert(inner, k, ChildOf(k)) :
                  /\ inner' = r.node
                  /\ aborted' = r.panic
            /\ UNCHANGED leaf
    /\ op' = [name |-> "insert", args |-> <<k, "self">>, ret |-> None]
    /\ nops' = nops + 1
    /\ UNCHANGED <<lsib, isib, parent, pre, live, chain, setup>>

InsertSibling(k) ==
    /\ Filling /\ nops < MaxOps
    /\ IF kind = "leaf"
       THEN /\ \E r \in Leaf_insert(lsib, k, ValOf(k)) :
                  /\ lsib' = r.node
                  /\ aborted' = r.panic
            /\ UNCHANGED isib
       ELSE /\ \E r \in Inner_insert(isib, k, ChildOf(k)) :
                  /\ isib' = r.node
                  /\ aborted' = r.panic
            /\ UNCHANGED lsib
    /\ op' = [name |-> "insert", args |-> <<k, "sibling">>, ret |-> None]
    /\ nops' = nops + 1
    /\ UNCHANGED <<leaf, inner, parent, pre, live, chain, setup>>

\* self.merge(sibling, parent_key), parent_key any key of Keys
MergePair(parent_key) ==
    /\ Filling
    /\ IF kind = "leaf"
       THEN /\ \E r \in Leaf_merge(leaf, lsib, parent_key) :
                  /\ leaf' = r.self
                  /\ lsib' = r.sibling
                  /\ aborted' = r.panic
            /\ pre' = [self |-> leaf, sibling |-> lsib, parent |-> parent]
            /\ UNCHANGED <<inner, isib>>
       ELSE /\ \E r \in Inner_merge(inner, isib, parent_key) :
                  /\ inner' = r.self
                  /\ isib' = r.sibling
                  /\ aborted' = r.panic
            /\ pre' = [self |-> inner, sibling |-> isib, parent |-> parent]
            /\ UNCHANGED <<leaf, lsib>>
    /\ op' = [name |-> "merge", args |-> <<parent_key>>, ret |-> None]
    /\ UNCHANGED <<parent, live, nops, chain, setup>>

NextMerge ==
    \/ \E k \in Keys : InsertSelf(k)
    \/ \E k \in Keys : InsertSibling(k)
    \/ \E k \in Keys : MergePair(k)

SpecMerge == InitMerge /\ [][NextMerge]_vars


\* ---------------------------------------------- routing in a big inner node

\* An inner node is filled with the separators 2, 4, 6, ...; when it is
\* small, around half full, or full or one short of it, it is asked for the
\* child of any lookup key from below its first separator to above its last
\* one.
RouteStops == (0..MaxKey) \cup (Half..(Half + 1)) \cup ((Cap - 1)..Cap)

InitRoute ==
    /\ InitNodes
    /\ kind = "inner"
    /\ stride = 2
    /\ sibRight = TRUE
    /\ live = <<>>

\* inner.traverse(q)
TraverseAt(q) ==
    /\ kind = "inner" /\ Filling
    /\ count(inner) \in RouteStops /\ q <= stride * count(inner) + 1
    /\ \E c \in traverse(inner, q) :
          op' = [name |-> "traverse", args |-> <<q>>, ret |-> c]
    /\ pre' = [pre EXCEPT !.self = inner]
    /\ UNCHANGED <<nodes, live, nops, aborted, chain, setup>>

NextRoute ==
    \/ Filling /\ FillInner
    \/ \E q \in 0..(2 * Cap + 1) : TraverseAt(q)

SpecRoute == InitRoute /\ [][NextRoute]_vars


\* ==================================================================== claims

StrictlyIncreasing(s) == \A j \in 1..(Len(s) - 1) : s[j] < s[j + 1]

\* How often x occurs in s.
Occurrences(s, x) == Cardinality({j \in 1..Len(s) : s[j] = x})

\* The last call was a split that returned.
SplitDone == op.name = "split" /\ ~aborted

\* C1: starting from empty nodes, after any sequence of calls whose asserted
\* preconditions are met (a key may be inserted while it is already present),
\* keys() of every node involved is strictly increasing.
C1_KeysStrictlyIncreasing ==
    ~aborted =>
        /\ StrictlyIncreasing(keys(leaf))
        /\ StrictlyIncreasing(keys(lsib))
        /\ StrictlyIncreasing(keys(inner))
        /\ StrictlyIncreasing(keys(isib))
        /\ StrictlyIncreasing(keys(parent))

\* C2: every key inserted and not subsequently removed is found by contains
\* (both node kinds), and get on a leaf returns the value of its last insert.
C2_InsertedKeysAreFound ==
    ~aborted =>
        \A k \in Keys :
            live[k] # None =>
                IF kind = "leaf"
                THEN /\ Leaf_contains(leaf, k) = {TRUE}
                     /\ Leaf_get(leaf, k) = {live[k]}
                ELSE Inner_contains(inner, k) = {TRUE}

\* C3 as stated: split of a full node of either kind, for every incoming
\* key, yields two nodes whose counts sum to 256, each between 127 and 129,
\* neither above 255.
C3_SplitCountsAsStated ==
    SplitDone =>
        LET a == IF kind = "leaf" THEN count(leaf) ELSE count(inner)
            b == IF kind = "leaf" THEN count(lsib) ELSE count(isib)
        IN  /\ a + b = Cap + 1
            /\ a \in Half..(Half + 2) /\ b \in Half..(Half + 2)
            /\ a <= Cap /\ b <= Cap

\* C3 amended: split of a full leaf yields counts that sum to 256, each
\* between 127 and 129; split of a full inner node yields counts that sum to
\* 255 (the promoted key is in neither node), each between 126 and 129; no
\* count exceeds 255.
C3_SplitCounts ==
    SplitDone =>
        IF kind = "leaf"
        THEN /\ count(leaf) + count(lsib) = Cap + 1
             /\ count(leaf) \in Half..(Half + 2) /\ count(lsib) \in Half..(Half + 2)
        ELSE /\ count(inner) + count(isib) = Cap
             /\ count(inner) \in (Half - 1)..(Half + 2)
             /\ count(isib) \in (Half - 1)..(Half + 2)

\* An inner split whose incoming key lands in self: counts 129 and 126.
C3_Witness ==
    /\ SplitDone /\ kind = "inner"
    /\ count(inner) = Half + 2 /\ count(isib) = Half - 1

\* The leaf was filled with 1..=255 and then split with incoming key 256.
C4_Case == kind = "leaf" /\ stride = 1 /\ SplitDone /\ op.args[1] = Cap + 1

\* C4 as stated: after inserting 1..=255 in increasing order the split with
\* incoming key 256 yields counts 128 and 128.
C4_FillThenSplitAsStated ==
    C4_Case => count(leaf) = Half + 1 /\ count(lsib) = Half + 1

\* C4 amended: inserting 1..=255 in increasing order into an empty leaf makes
\* it full with contains(200) true; splitting it with incoming key 256 yields
\* a left leaf of 127 and a right leaf of 129 entries.
C4_FillThenSplit ==
    /\ (kind = "leaf" /\ stride = 1 /\ op.name = "insert" /\ op.args[1] = Cap) =>
           /\ full(leaf)
           /\ keys(leaf) = [j \in 1..Cap |-> j]
           /\ Leaf_contains(leaf, 200) = {TRUE}
    /\ C4_Case => count(leaf) = Half /\ count(lsib) = Half + 2

C4_Witness == C4_Case /\ Idx(keys(lsib), count(lsib) - 1) = Cap + 1

\* C5: leaf split is copy-up: for a full leaf and every incoming key the key
\* written back equals the first key of the returned leaf, where it is stored
\* with its value, and every key of the left leaf is smaller than it.
C5_LeafSplitCopyUp ==
    (SplitDone /\ kind = "leaf") =>
        /\ op.ret = Idx(keys(lsib), 0)
        /\ Idx(Leaf_content(lsib), 0) \in {ValOf(op.ret), NewVal}
        /\ \A j \in 1..count(leaf) : keys(leaf)[j] < op.ret

\* The incoming key of the last split was not among the keys of the node.
SplitKeyAbsent == op.args[1] \notin Range(keys(pre.self))

\* C6: inner split is move-up: for a full inner node and every incoming key
\* not already present, the key written back is in neither node's keys(),
\* every other old key and the incoming key are in exactly one of the two,
\* and both nodes have one more child than keys, every child a page that
\* was attached to the old node or comes with the incoming entry.
C6_InnerSplitMoveUp ==
    (SplitDone /\ kind = "inner" /\ SplitKeyAbsent) =>
        LET both == keys(inner) \o keys(isib)
            old  == Range(keys(pre.self)) \cup {op.args[1]}
            kids == Range(Inner_content(pre.self)) \cup {op.args[2]}
        IN  /\ op.ret \in old
            /\ op.ret \notin Range(both)
            /\ \A k \in old \ {op.ret} : Occurrences(both, k) = 1
            /\ Range(both) \subseteq old
            /\ Len(Inner_content(inner)) = Len(keys(inner)) + 1
            /\ Len(Inner_content(isib)) = Len(keys(isib)) + 1
            /\ Range(Inner_content(inner)) \cup Range(Inner_content(isib)) = kids

\* An inner split whose incoming key is absent and lands exactly at the midpoint.
C6_Witness ==
    /\ SplitDone /\ kind = "inner" /\ SplitKeyAbsent
    /\ Cardinality({k \in Range(keys(pre.self)) : k < op.args[1]}) = Half + 1

\* The pages visited by following next links from page p for at most fuel
\* steps, stopping at a page id that holds no live leaf.
RECURSIVE ChainFrom(_, _)
ChainFrom(p, fuel) ==
    IF fuel = 0 \/ p \notin used THEN <<>>
    ELSE <<p>> \o ChainFrom(pages[p].next, fuel - 1)

\* C7: the leaf chain stays ordered.  After any sequence of leaf splits into a
\* fresh page and merges of a leaf with its right-hand neighbour, following
\* next from the leftmost leaf (page 1) visits every live leaf exactly once,
\* the keys of a leaf ascend and its last key is below the first key of the
\* leaf after it (no live leaf of a chain of several is empty), and the
\* last leaf's next is the next value of the original leaf; right after a
\* split the new leaf's next is the old next of self and self.next is
\* target_id.
C7_LeafChainOrdered ==
    LET w == ChainFrom(PageIds.self, MaxPages + 1)
    IN  /\ Len(w) = Cardinality(used)
        /\ Range(w) = used
        /\ pages[w[Len(w)]].next = first
        /\ \A j \in 1..Len(w) :
              \A i \in 0..(count(pages[w[j]]) - 2) :
                  Idx(pages[w[j]].keys, i) < Idx(pages[w[j]].keys, i + 1)
        /\ \A j \in 1..(Len(w) - 1) :
              /\ count(pages[w[j]]) > 0 /\ count(pages[w[j + 1]]) > 0
              /\ Idx(pages[w[j]].keys, count(pages[w[j]]) - 1)
                    < Idx(pages[w[j + 1]].keys, 0)
        /\ op.name = "split" =>
              /\ pages[op.args[3]].next = pre.self.next
              /\ pages[op.args[4]].next = op.args[3]

\* A merge of a leaf other than the leftmost with the last leaf of a chain of
\* three leaves that two splits have built.
C7_Witness ==
    /\ op.name = "merge"
    /\ ~aborted
    /\ Cardinality(used) = 2
    /\ pages[PageIds.self].next # pre.sibling.next
    /\ pre.sibling.next = first
    /\ pre.self.next \notin used
    /\ op.args[3] # PageIds.self

\* The last call was a merge whose assertions passed.
MergeDone == op.name = "merge" /\ ~aborted

\* C8: a merge that passes its assertions appends the sibling to self: a leaf
\* holds its old entries followed by the sibling's, count is the sum and next
\* is the sibling's next; an inner node holds its old keys, parent_key, the
\* sibling's keys, its old children followed by the sibling's, and count is
\* the sum plus one.
C8_MergeAppends ==
    MergeDone =>
        IF kind = "leaf"
        THEN /\ keys(leaf) = keys(pre.self) \o keys(pre.sibling)
             /\ Leaf_content(leaf) = Leaf_content(pre.self) \o Leaf_content(pre.sibling)
             /\ count(leaf) = count(pre.self) + count(pre.sibling)
             /\ leaf.next = pre.sibling.next
        ELSE /\ keys(inner) = keys(pre.self) \o <<op.args[1]>> \o keys(pre.sibling)
             /\ Inner_content(inner) =
                    Inner_content(pre.self) \o Inner_content(pre.sibling)
             /\ count(inner) = count(pre.self) + count(pre.sibling) + 1

\* Two non-empty inner nodes merged into a full one.
C8_Witness ==
    /\ MergeDone /\ kind = "inner"
    /\ count(pre.self) > 0 /\ count(pre.sibling) > 0
    /\ full(inner)

\* The last call was a borrow whose two preconditions held.
BorrowCalled == op.name = "borrow" /\ half_full(pre.self) /\ ~half_full(pre.sibling)

Self == IF kind = "leaf" THEN leaf ELSE inner
Sibling == IF kind = "leaf" THEN lsib ELSE isib

\* C9: every borrow that satisfies its preconditions (self count 0..=127,
\* sibling count 128..=255), for both kinds and both directions, leaves both
\* self and sibling with count >= 127 and the sum of the two counts unchanged.
\* Stated for the self counts 126 and 127, from which the one entry a borrow
\* moves can bring self to 127: from a smaller count self ends below 127
\* whatever the code does.
C9_BorrowCounts ==
    (BorrowCalled /\ count(pre.self) >= Half - 1) =>
        /\ ~aborted
        /\ count(Self) >= Half
        /\ count(Sibling) >= Half
        /\ count(Self) + count(Sibling) = count(pre.self) + count(pre.sibling)

\* C10: leaf borrow moves exactly one entry and fixes the separator: from
\* the right sibling its first entry is appended to self and
\* parent.keys[parent_slot] becomes the sibling's new first key; from the left
\* sibling its last entry is prepended to self and parent.keys[parent_slot - 1]
\* becomes that key.  Afterwards every key of the left-hand leaf is below the
\* separator, which is the first key of the right-hand leaf.
C10_LeafBorrowMovesOne ==
    (BorrowCalled /\ kind = "leaf") =>
        /\ ~aborted
        /\ LET n   == count(pre.sibling)
               sep == Idx(parent.keys, 1)
               lft == IF sibRight THEN leaf ELSE lsib
               rgt == IF sibRight THEN lsib ELSE leaf
           IN  /\ IF sibRight
                  THEN /\ keys(leaf) = keys(pre.self) \o <<Idx(pre.sibling.keys, 0)>>
                       /\ Leaf_content(leaf) =
                              Leaf_content(pre.self) \o <<Idx(pre.sibling.data, 0)>>
                       /\ keys(lsib) = Slice(keys(pre.sibling), 1, n)
                       /\ Leaf_content(lsib) = Slice(Leaf_content(pre.sibling), 1, n)
                       /\ Idx(parent.keys, op.args[1]) = Idx(keys(lsib), 0)
                  ELSE /\ keys(leaf) = <<Idx(pre.sibling.keys, n - 1)>> \o keys(pre.self)
                       /\ Leaf_content(leaf) =
                              <<Idx(pre.sibling.data, n - 1)>> \o Leaf_content(pre.self)
                       /\ keys(lsib) = Slice(keys(pre.sibling), 0, n - 1)
                       /\ Leaf_content(lsib) = Slice(Leaf_content(pre.sibling), 0, n - 1)
                       /\ Idx(parent.keys, op.args[1] - 1) = Idx(pre.sibling.keys, n - 1)
               /\ \A j \in 1..count(lft) : keys(lft)[j] < sep
               /\ sep = Idx(keys(rgt), 0)

\* C11: inner borrow is a rotation through the parent separator.  For both
\* directions, with L the left-hand and R the right-hand node of self and
\* sibling and s the separator between them in parent, L.keys ++ [s] ++ R.keys
\* and L.children ++ R.children are the same before and after the call, one
\* entry has moved from the sibling to self, and nothing else of parent
\* changes.
C11_InnerBorrowRotation ==
    (BorrowCalled /\ kind = "inner") =>
        /\ ~aborted
        /\ LET pidx == IF sibRight THEN op.args[1] ELSE op.args[1] - 1
               L0   == IF sibRight THEN pre.self ELSE pre.sibling
               R0   == IF sibRight THEN pre.sibling ELSE pre.self
               L1   == IF sibRight THEN inner ELSE isib
               R1   == IF sibRight THEN isib ELSE inner
           IN  /\ keys(L1) \o <<Idx(parent.keys, pidx)>> \o keys(R1)
                    = keys(L0) \o <<Idx(pre.parent.keys, pidx)>> \o keys(R0)
               /\ Inner_content(L1) \o Inner_content(R1)
                    = Inner_content(L0) \o Inner_content(R0)
               /\ count(inner) = count(pre.self) + 1
               /\ count(isib) = count(pre.sibling) - 1
               /\ parent = [pre.parent EXCEPT
                              !.keys = Put(pre.parent.keys, pidx, Idx(parent.keys, pidx))]

\* s without its j-th element, and the position of x in s.
Without(s, j) == SubSeq(s, 1, j - 1) \o SubSeq(s, j + 1, Len(s))
PositionOf(s, x) == CHOOSE j \in 1..Len(s) : s[j] = x

\* The last call was remove(k) for a key k stored exactly once in the node.
RemoveOfStored ==
    /\ op.name = "remove"
    /\ Occurrences(keys(pre.self), op.args[1]) = 1

\* C12: for an inner node that holds separator k at index m, remove(k)
\* returns Some(children[m + 1]), after which k is no longer in keys(), that
\* child is no longer in content(), count is one less and all other keys and
\* children keep their order.
C12_InnerRemoveTakesSeparator ==
    (kind = "inner" /\ RemoveOfStored /\ StrictlyIncreasing(keys(pre.self))) =>
        LET m == PositionOf(keys(pre.self), op.args[1])
        IN  /\ ~aborted
            /\ op.ret = Inner_content(pre.self)[m + 1]
            /\ keys(inner) = Without(keys(pre.self), m)
            /\ Inner_content(inner) = Without(Inner_content(pre.self), m + 1)
            /\ count(inner) = count(pre.self) - 1

\* C13: for a leaf of any count 1..=255 and any key stored at any index i
\* (the last slot of a full leaf included), remove(k) returns Some(data[i]),
\* count is one less and all other (key, value) pairs stay in their order.
C13_LeafRemoveAnyIndex ==
    (kind = "leaf" /\ RemoveOfStored) =>
        LET i == PositionOf(keys(pre.self), op.args[1])
        IN  /\ ~aborted
            /\ op.ret = Leaf_content(pre.self)[i]
            /\ count(leaf) = count(pre.self) - 1
            /\ keys(leaf) = Without(keys(pre.self), i)
            /\ Leaf_content(leaf) = Without(Leaf_content(pre.self), i)

\* The last call was remove or contains of a key that was not in keys().
AbsentKeyCall ==
    /\ op.name \in {"remove", "contains"}
    /\ op.args[1] \notin Range(keys(pre.self))

\* C14: absence is not an error.  For both node kinds, in every node state
\* (an empty node included) and for every key not in keys(), remove returns
\* None and contains returns false without aborting, and count, keys and
\* content of the node are unchanged.
C14_AbsenceIsNotAnError ==
    AbsentKeyCall =>
        /\ ~aborted
        /\ op.ret = IF op.name = "remove" THEN None ELSE FALSE
        /\ Self = pre.self

\* The last call was made with a precondition that does not hold: insert
\* into a full node, borrow with self above half or with a sibling at most
\* half full, merge of more entries than fit or of nodes whose first keys
\* are not in order.
PreconditionFails ==
    \/ op.name = "insert" /\ full(pre.sibling)
    \/ op.name = "borrow" /\ (~half_full(pre.self) \/ half_full(pre.sibling))
    \/ /\ op.name = "merge"
       /\ \/ count(pre.self) + count(pre.sibling) + (IF kind = "leaf" THEN 0 ELSE 1) > Cap
          \/ /\ count(pre.self) > 0 /\ count(pre.sibling) > 0
             /\ Idx(pre.self.keys, 0) >= Idx(pre.sibling.keys, 0)

\* C15: a call whose precondition fails aborts, and the abort happens before
\* any write: count, keys, content and next of self, of the sibling and of
\* parent are what they were before the call.  A merge aborts on nothing but
\* its two assertions, so every aborted merge is covered.
C15_AbortBeforeAnyWrite ==
    /\ PreconditionFails => aborted
    /\ (aborted /\ (PreconditionFails \/ op.name = "merge")) =>
           /\ Self = pre.self
           /\ Sibling = pre.sibling
           /\ parent = pre.parent

\* An insert into a full leaf has aborted.
C15_Witness ==
    /\ aborted /\ op.name = "insert" /\ kind = "leaf"
    /\ full(pre.sibling) /\ full(lsib)

\* The last call was a merge of two non-empty nodes with strictly increasing
\* keys whose key ranges overlap or are out of order: some key of self is
\* greater than or equal to some key of the sibling.
MergeOfOverlapping ==
    /\ op.name = "merge"
    /\ count(pre.self) > 0 /\ count(pre.sibling) > 0
    /\ StrictlyIncreasing(keys(pre.self)) /\ StrictlyIncreasing(keys(pre.sibling))
    /\ \E a \in Range(keys(pre.self)), b \in Range(keys(pre.sibling)) : a >= b

\* C16: merge is fatal on overlapping or misordered key ranges.  For both
\* node kinds, if any key of self is greater than or equal to any key of the
\* sibling, merge aborts instead of producing a merged node.
C16_MergeFatalOnOverlap ==
    MergeOfOverlapping => aborted

\* The number of live keys of node n that are <= q, and whether the live keys
\* of n are strictly increasing (both read the raw array below count).
KeysUpTo(n, q) == Cardinality({i \in 0..(count(n) - 1) : Idx(n.keys, i) <= q})
Ascending(n) == \A i \in 0..(count(n) - 2) : Idx(n.keys, i) < Idx(n.keys, i + 1)

\* C17: for an inner node with strictly increasing keys and any lookup key
\* q, traverse(q) returns content()[j] with j the number of separators <= q:
\* children[0] below keys[0], children[i] for keys[i-1] <= q < keys[i],
\* children[count] from keys[count-1] on, children[m + 1] on an exact match
\* with keys[m]; the index is within content().
C17_TraverseRoutes ==
    (op.name = "traverse" /\ Ascending(pre.self)) =>
        LET q == op.args[1]
            n == pre.self
            j == KeysUpTo(n, q)
        IN  /\ j <= count(n)
            /\ op.ret = Idx(n.children, j)
            /\ (count(n) > 0 /\ q < Idx(n.keys, 0)) => op.ret = Idx(n.children, 0)
            /\ (count(n) > 0 /\ q >= Idx(n.keys, count(n) - 1)) =>
                   op.ret = Idx(n.children, count(n))
            /\ \A i \in 1..(count(n) - 1) :
                   (Idx(n.keys, i - 1) <= q /\ q < Idx(n.keys, i)) =>
                       op.ret = Idx(n.children, i)
            /\ \A m \in 0..(count(n) - 1) :
                   Idx(n.keys, m) = q => op.ret = Idx(n.children, m + 1)

\* A lookup of the last separator of a full inner node: the last child.
C17_Witness ==
    /\ op.name = "traverse" /\ full(pre.self)
    /\ op.args[1] = Idx(keys(pre.self), Cap - 1)
    /\ op.ret = Idx(pre.self.children, Cap)

\* s with x inserted after its first p elements.
InsertedAt(s, p, x) == SubSeq(s, 1, p) \o <<x>> \o SubSeq(s, p + 1, Len(s))

\* C18: leaf split loses and invents nothing.  For a full leaf with strictly
\* increasing keys and every incoming (key, value) whose key is not already
\* present, the pairs of the left leaf followed by those of the right leaf
\* are the old leaf's pairs with the incoming pair inserted at its sorted
\* position, for an insertion index below, at or above the midpoint.
C18_LeafSplitKeepsEntries ==
    (SplitDone /\ kind = "leaf" /\ SplitKeyAbsent /\ Ascending(pre.self)) =>
        LET p == Cardinality({j \in 1..count(pre.self) : pre.self.keys[j] < op.args[1]})
        IN  /\ keys(leaf) \o keys(lsib) = InsertedAt(keys(pre.self), p, op.args[1])
            /\ Leaf_content(leaf) \o Leaf_content(lsib)
                 = InsertedAt(Leaf_content(pre.self), p, op.args[2])

\* A leaf split whose incoming key is absent and lands exactly at the midpoint.
C18_Witness ==
    /\ SplitDone /\ kind = "leaf" /\ SplitKeyAbsent
    /\ Cardinality({j \in 1..count(pre.self) : pre.self.keys[j] < op.args[1]}) = Half

\* The child a lookup of q reaches in the reference node with keys ks and
\* children cs: the child after the last key <= q.
RefTraverse(ks, cs, q) == cs[Cardinality({j \in 1..Len(ks) : ks[j] <= q}) + 1]

\* C19: inner split preserves routing.  For a full inner node with strictly
\* increasing keys, every incoming (newkey, newchild) with newkey not already
\* present and every lookup key q, descending by the promoted key p (left
\* node for q < p, right node for q >= p) and calling traverse(q) there
\* returns the child that the 256-key node obtained by inserting newkey, with
\* newchild to its right, into the old node would return.
C19_InnerSplitKeepsRouting ==
    (SplitDone /\ kind = "inner" /\ SplitKeyAbsent /\ Ascending(pre.self)) =>
        LET at == Cardinality({j \in 1..count(pre.self) : pre.self.keys[j] < op.args[1]})
            ks == InsertedAt(keys(pre.self), at, op.args[1])
            cs == InsertedAt(Inner_content(pre.self), at + 1, op.args[2])
        IN  \A q \in 0..(stride * Cap + 2) :
                traverse(IF q < op.ret THEN inner ELSE isib, q) = {RefTraverse(ks, cs, q)}

\* An inner split whose incoming key is absent and goes to the right node,
\* which routes a lookup of that key to the incoming child.
C19_Witness ==
    /\ SplitDone /\ kind = "inner" /\ SplitKeyAbsent
    /\ op.args[1] > op.ret
    /\ traverse(isib, op.args[1]) = {op.args[2]}

\* An insert into the inner node has returned.
InnerInsertDone == op.name = "insert" /\ kind = "inner" /\ ~aborted

\* C20: inner insert attaches the new child to the right of the new
\* separator.  For a non-full inner node with strictly increasing keys and a
\* key k not already present, after insert(k, c) traverse(q) returns c for
\* every q with k <= q < the next larger separator (if any) and the same child
\* as before for every other q; content()[0] is never changed by insert.
C20_InnerInsertAttachesRight ==
    (op.name = "insert" /\ kind = "inner") =>
        /\ Idx(inner.children, 0) = Idx(pre.self.children, 0)
        /\ (~aborted /\ Ascending(pre.self) /\ op.args[1] \notin Range(keys(pre.self))) =>
              LET k == op.args[1]
                  larger == {x \in Range(keys(pre.self)) : x > k}
              IN  \A q \in 0..(MaxKey + 1) :
                      IF k <= q /\ \A x \in larger : q < x
                      THEN traverse(inner, q) = {op.args[2]}
                      ELSE traverse(inner, q) = traverse(pre.self, q)

\* An absent key inserted between two stored separators, after which a lookup
\* of it reaches the new child and no longer the child it reached before.
C20_Witness ==
    /\ InnerInsertDone
    /\ Ascending(pre.self)
    /\ op.args[1] \notin Range(keys(pre.self))
    /\ \E x, y \in Range(keys(pre.self)) : x < op.args[1] /\ op.args[1] < y
    /\ traverse(inner, op.args[1]) = {op.args[2]}
    /\ traverse(pre.self, op.args[1]) # {op.args[2]}

====
